---- MODULE Spec2Model ----
(***************************************************************************)
(* Model of provision/docker/docker.go: the container and image entities   *)
(* that drive the docker command line through runCmd.                      *)
(*                                                                         *)
(* Go strings are sequences of one-character strings, so that newline      *)
(* removal and "%s/%s" formatting act on characters.  An error value is a  *)
(* record with a "type" field; Nil is the nil error.  Every operation is   *)
(* an operator from (configuration, receiver, executor response) to an     *)
(* outcome: what it returns (or a panic) and the ordered events (log lines *)
(* and executions) it produced.                                            *)
(***************************************************************************)
EXTENDS Integers, Sequences, FiniteSets, TLC

VARIABLES config, cont, img, last

vars == <<config, cont, img, last>>

\* Longest captured output text drawn for the executor.
MaxLen == 3

----------------------------------------------------------------------------
\* Strings of the program

S_run == <<"r", "u", "n">>
S_d == <<"-", "d">>
S_stop == <<"s", "t", "o", "p">>
S_rm == <<"r", "m">>
S_inspect == <<"i", "n", "s", "p", "e", "c", "t">>
S_commit == <<"c", "o", "m", "m", "i", "t">>
S_slash == <<"/">>
NL == "\n"

\* Values used by the environment
S_docker == <<"d", "o", "c", "k", "e", "r">>
S_template == <<"u", "b", "u", "n", "t", "u">>
S_cmdbin == <<"s", "s", "h", "d">>
S_cmdargs == << <<"-", "D">>, <<"-", "e">> >>
S_tsuru == <<"t", "s", "u", "r", "u">>
S_acme == <<"a", "c", "m", "e">>
S_base == <<"b", "a", "s", "e">>
S_app == <<"a", "p", "p">>
S_abc123 == <<"a", "b", "c", "1", "2", "3">>
S_ip == <<"1", "0", ".", "0", ".", "0", ".", "5">>

\* Configuration keys
K_binary == "docker:binary"
K_image == "docker:image"
K_cmdbin == "docker:cmd:bin"
K_cmdargs == "docker:cmd:args"
K_namespace == "docker:repository-namespace"

Keys == {K_binary, K_image, K_cmdbin, K_cmdargs, K_namespace}

\* The values a key may be set to
KeyValues(k) ==
  IF k = K_binary THEN {S_docker}
  ELSE IF k = K_image THEN {S_template}
  ELSE IF k = K_cmdbin THEN {S_cmdbin}
  ELSE IF k = K_cmdargs THEN {S_cmdargs}
  ELSE {S_tsuru, S_acme}

\* A configuration is a function from the keys that are set to their values.
Configs == UNION {{f \in [ks -> UNION {KeyValues(k) : k \in ks}] :
                      \A k \in ks : f[k] \in KeyValues(k)} : ks \in SUBSET Keys}

----------------------------------------------------------------------------
\* Errors

Nil == [type |-> "nil"]

ConfigError(k) == [type |-> "config", key |-> k]

\* errors.New(msg)
New(msg) == [type |-> "errorString", msg |-> msg]

\* What Execute may report: the binary could not be launched, or it exited
\* with a non-zero status.
ExecErrors == {[type |-> "exec", cause |-> "launch"],
               [type |-> "exec", cause |-> "exit"]}

\* config.GetString / config.GetList: the value, or an error for a key not set.
GetString(cfg, k) ==
  IF k \in DOMAIN cfg THEN [val |-> cfg[k], err |-> Nil]
  ELSE [val |-> <<>>, err |-> ConfigError(k)]

----------------------------------------------------------------------------
\* Events and outcomes

Log(fmt, a) == [e |-> "log", fmt |-> fmt, a |-> a]

Execute(cmd, args) == [e |-> "execute", cmd |-> cmd, args |-> args]

Return(val, err, events) ==
  [kind |-> "return", val |-> val, err |-> err, events |-> events]

\* A failed type assertion: the goroutine panics, nothing is returned.
Panic(events) ==
  [kind |-> "panic", val |-> <<>>, err |-> Nil, events |-> events]

MsgRunning == "running the cmd: %s with the args: %s"

\* runCmd(cmd, args...) under the executor answering resp = [out, err]
runCmd_logFirst(cmd, args, resp) ==
  [out |-> resp.out, err |-> resp.err,
   events |-> <<Log(MsgRunning, <<cmd, args>>), Execute(cmd, args)>>]

runCmd_dropErr(cmd, args, resp) ==
  [out |-> resp.out, err |-> Nil,
   events |-> <<Execute(cmd, args), Log(MsgRunning, <<cmd, args>>)>>]

runCmd(cmd, args, resp) ==
  [out |-> resp.out, err |-> resp.err,
   events |-> <<Execute(cmd, args), Log(MsgRunning, <<cmd, args>>)>>]

----------------------------------------------------------------------------
\* JSON

\* The text captured from "inspect" is represented by the JSON value it
\* denotes, or by NotJSON when it is not JSON at all.
NotJSON == [t |-> "invalid"]
JNull == [t |-> "null"]
JNumber == [t |-> "number"]
JArray == [t |-> "array"]
JString(s) == [t |-> "string", s |-> s]
\* m: a function from the keys present to their values
JObject(m) == [t |-> "object", m |-> m]

EmptyMap == [k \in {} |-> JNull]

\* json.Unmarshal(data, &result) with result a map[string]interface{}: a
\* syntax error for text that is not JSON, a type error for a value that is
\* not an object; null leaves the map nil.
Unmarshal(p) ==
  IF p.t = "invalid" THEN [err |-> [type |-> "json", cause |-> "syntax"], result |-> EmptyMap]
  ELSE IF p.t = "object" THEN [err |-> Nil, result |-> p.m]
  ELSE IF p.t = "null" THEN [err |-> Nil, result |-> EmptyMap]
  ELSE [err |-> [type |-> "json", cause |-> "type"], result |-> EmptyMap]

\* m[k] of a Go map of interface{}: the nil interface for a missing key
Index(m, k) == IF k \in DOMAIN m THEN m[k] ELSE JNull

----------------------------------------------------------------------------
\* container

MsgInspect == "error(%s) trying to inspect docker instance(%s) to get ipaddress"
MsgParse == "error(%s) parsing json from docker when trying to get ipaddress"
MsgMissing == "Error when getting container information. NetworkSettings is missing."
MsgNoIp == "error: Can't get ipaddress..."

\* The part of ip() that walks the decoded map.  A type assertion x.(T) on a
\* value of another dynamic type, the nil interface included, panics.
ipFromResult_noEmptyCheck(result, events) ==
  IF "NetworkSettings" \notin DOMAIN result \/ result["NetworkSettings"].t = "null"
  THEN Return(<<>>, New(MsgMissing), events \o <<Log(MsgMissing, <<>>)>>)
  ELSE IF result["NetworkSettings"].t # "object" THEN Panic(events)
  ELSE LET networkSettings == result["NetworkSettings"].m
           v == Index(networkSettings, "IpAddress")
       IN IF v.t # "string" THEN Panic(events)
          ELSE Return(v.s, Nil, events \o <<Log("Instance IpAddress: %s", <<v.s>>)>>)

ipFromResult(result, events) ==
  IF "NetworkSettings" \notin DOMAIN result \/ result["NetworkSettings"].t = "null"
  THEN Return(<<>>, New(MsgMissing), events \o <<Log(MsgMissing, <<>>)>>)
  ELSE IF result["NetworkSettings"].t # "object" THEN Panic(events)
  ELSE LET networkSettings == result["NetworkSettings"].m
           v == Index(networkSettings, "IpAddress")
       IN IF v.t # "string" THEN Panic(events)
          ELSE LET instanceIp == v.s IN
               IF instanceIp = <<>>
               THEN Return(<<>>, New(MsgNoIp), events \o <<Log(MsgNoIp, <<>>)>>)
               ELSE Return(instanceIp, Nil,
                           events \o <<Log("Instance IpAddress: %s", <<instanceIp>>)>>)

\* container.ip
ip(cfg, self, resp) ==
  LET docker == GetString(cfg, K_binary) IN
  IF docker.err # Nil THEN Return(<<>>, docker.err, <<>>)
  ELSE LET r == runCmd(docker.val, <<S_inspect, self.id>>, resp)
           ev == <<Log("Getting ipaddress to instance %s", <<self.id>>)>> \o r.events
       IN IF r.err # Nil
          THEN Return(<<>>, New(MsgInspect), ev \o <<Log(MsgInspect, <<r.err>>)>>)
          ELSE LET u == Unmarshal(r.out) IN
               IF u.err # Nil
               THEN Return(<<>>, New(MsgParse), ev \o <<Log(MsgParse, <<u.err>>)>>)
               ELSE ipFromResult(u.result, ev)

\* strings.Replace(s, old, new, n) for a one-character old: the first n
\* occurrences are replaced, all of them when n < 0.
RECURSIVE Replace(_, _, _, _)
Replace(s, old, new, n) ==
  IF s = <<>> \/ n = 0 THEN s
  ELSE IF Head(s) = old THEN new \o Replace(Tail(s), old, new, n - 1)
  ELSE <<Head(s)>> \o Replace(Tail(s), old, new, n)

\* The clean-up create() applies to the captured output
cleanId_first(out) == Replace(out, NL, <<>>, 1)

cleanId(out) == Replace(out, NL, <<>>, -1)

\* container.create
create(cfg, self, resp) ==
  LET docker == GetString(cfg, K_binary)
      template == GetString(cfg, K_image)
      cmd == GetString(cfg, K_cmdbin)
      cargs == GetString(cfg, K_cmdargs)
  IN IF docker.err # Nil THEN Return(<<>>, docker.err, <<>>)
     ELSE IF template.err # Nil THEN Return(<<>>, template.err, <<>>)
     ELSE IF cmd.err # Nil THEN Return(<<>>, cmd.err, <<>>)
     ELSE IF cargs.err # Nil THEN Return(<<>>, cargs.err, <<>>)
     ELSE LET args == <<S_run, S_d, template.val, cmd.val>> \o cargs.val
              r == runCmd(docker.val, args, resp)
              id == cleanId(r.out)
          IN Return(id, r.err, r.events \o <<Log("docker id=%s", <<id>>)>>)

\* container.start
start_invokes(cfg, self, resp) ==
  LET docker == GetString(cfg, K_binary) IN
  IF docker.err # Nil THEN Return(<<>>, docker.err, <<>>)
  ELSE LET r == runCmd(docker.val, <<<<"s", "t", "a", "r", "t">>, self.id>>, resp) IN
       Return(<<>>, r.err, r.events)

start(cfg, self, resp) == Return(<<>>, Nil, <<>>)

\* container.stop
stop_noConfigCheck(cfg, self, resp) ==
  LET docker == GetString(cfg, K_binary)
      r == runCmd(docker.val, <<S_stop, self.id>>, resp)
  IN Return(<<>>, r.err,
            <<Log("trying to stop instance %s", <<self.id>>)>> \o r.events
              \o <<Log("docker stop=%s", <<r.out>>)>>)

stop(cfg, self, resp) ==
  LET docker == GetString(cfg, K_binary) IN
  IF docker.err # Nil THEN Return(<<>>, docker.err, <<>>)
  ELSE LET r == runCmd(docker.val, <<S_stop, self.id>>, resp) IN
       Return(<<>>, r.err,
              <<Log("trying to stop instance %s", <<self.id>>)>> \o r.events
                \o <<Log("docker stop=%s", <<r.out>>)>>)

\* container.remove
remove(cfg, self, resp) ==
  LET docker == GetString(cfg, K_binary) IN
  IF docker.err # Nil THEN Return(<<>>, docker.err, <<>>)
  ELSE LET r == runCmd(docker.val, <<S_rm, self.id>>, resp) IN
       Return(<<>>, r.err,
              <<Log("trying to remove container %s", <<self.id>>)>> \o r.events)

----------------------------------------------------------------------------
\* image

MsgNoNamespace == "Tsuru is misconfigured. docker:repository-namespace config is missing."
MsgNoBinary == "Tsuru is misconfigured. docker:binary config is missing."

\* image.repositoryName: returns a string only; err is always Nil.
repositoryName_reversed(cfg, self) ==
  LET registryUser == GetString(cfg, K_namespace) IN
  IF registryUser.err # Nil
  THEN Return(<<>>, Nil, <<Log(MsgNoNamespace, <<>>)>>)
  ELSE Return(self.name \o S_slash \o registryUser.val, Nil, <<>>)

repositoryName(cfg, self) ==
  LET registryUser == GetString(cfg, K_namespace) IN
  IF registryUser.err # Nil
  THEN Return(<<>>, Nil, <<Log(MsgNoNamespace, <<>>)>>)
  ELSE Return(registryUser.val \o S_slash \o self.name, Nil, <<>>)

\* image.commit
commit_swapped(cfg, self, cId, resp) ==
  LET docker == GetString(cfg, K_binary) IN
  IF docker.err # Nil THEN Return(<<>>, docker.err, <<Log(MsgNoBinary, <<>>)>>)
  ELSE LET rName == repositoryName(cfg, self)
           r == runCmd(docker.val, <<S_commit, rName.val, cId>>, resp)
           ev == <<Log("attempting to commit image from container %s", <<cId>>)>>
                   \o rName.events \o r.events
       IN IF r.err # Nil
          THEN Return(<<>>, r.err, ev \o <<Log("Could not commit docker image: %s", <<r.err>>)>>)
          ELSE Return(<<>>, Nil, ev)

commit(cfg, self, cId, resp) ==
  LET docker == GetString(cfg, K_binary) IN
  IF docker.err # Nil THEN Return(<<>>, docker.err, <<Log(MsgNoBinary, <<>>)>>)
  ELSE LET rName == repositoryName(cfg, self)
           r == runCmd(docker.val, <<S_commit, cId, rName.val>>, resp)
           ev == <<Log("attempting to commit image from container %s", <<cId>>)>>
                   \o rName.events \o r.events
       IN IF r.err # Nil
          THEN Return(<<>>, r.err, ev \o <<Log("Could not commit docker image: %s", <<r.err>>)>>)
          ELSE Return(<<>>, Nil, ev)

----------------------------------------------------------------------------
\* The environment: what the executor may answer

RECURSIVE TextsOfLen(_)
TextsOfLen(n) ==
  IF n = 0 THEN {<<>>}
  ELSE {<<ch>> \o t : ch \in {"a", NL}, t \in TextsOfLen(n - 1)}

\* Captured output of run
Texts == UNION {TextsOfLen(n) : n \in 0..MaxLen} \cup {S_abc123 \o <<NL>>}

\* The objects an inspect may print under "NetworkSettings"
Settings ==
  {JObject(EmptyMap),
   JObject([k \in {"IpAddress"} |-> JNull]),
   JObject([k \in {"IpAddress"} |-> JNumber]),
   JObject([k \in {"IpAddress"} |-> JString(<<>>)]),
   JObject([k \in {"IpAddress"} |-> JString(S_ip)]),
   JObject([k \in {"IpAddress", "Gateway"} |-> JString(S_ip)])}

\* Captured output of inspect
Payloads ==
  {NotJSON, JNull, JNumber, JArray, JString(S_ip), JObject(EmptyMap),
   JObject([k \in {"ID"} |-> JString(S_abc123)])}
  \cup {JObject([k \in {"NetworkSettings"} |-> v]) :
          v \in {JNull, JNumber, JString(S_ip), JArray} \cup Settings}

Outcomes == ExecErrors \cup {Nil}

\* Captured output of stop, rm and commit, which the code only logs
ShortTexts == {<<>>, <<"a">>, <<NL>>}

TextResponses == [out : Texts, err : Outcomes]

ShortResponses == [out : ShortTexts, err : Outcomes]

InspectResponses == [out : Payloads, err : Outcomes]

ContainerIds == {<<>>, S_abc123}

----------------------------------------------------------------------------
\* State: the process-wide configuration, one container, one image, and the
\* call the caller made last (its receiver before the call, the executor's
\* answer and the outcome).

NoResponse == [out |-> <<>>, err |-> Nil]

Calls(events) == SelectSeq(events, LAMBDA ev : ev.e = "execute")

Idle ==
  [op |-> "none", arg |-> <<>>, cont |-> cont, img |-> img,
   resp |-> NoResponse, ret |-> Return(<<>>, Nil, <<>>)]

Called(op, arg, resp, ret) ==
  [op |-> op, arg |-> arg, cont |-> cont, img |-> img,
   resp |-> IF Calls(ret.events) = <<>> THEN NoResponse ELSE resp,
   ret |-> ret]

Init ==
  /\ config \in Configs
  /\ cont \in [name : {S_app}, id : ContainerIds]
  /\ img \in [name : {S_base}, id : {<<>>}]
  /\ last = Idle

\* A goroutine that panicked makes no further call.
Running == last.ret.kind # "panic"

CallCreate_storesId ==
  /\ Running
  /\ \E resp \in TextResponses :
       LET ret == create(config, cont, resp) IN
       /\ last' = Called("create", <<>>, resp, ret)
       /\ cont' = IF ret.err = Nil THEN [cont EXCEPT !.id = ret.val] ELSE cont
  /\ UNCHANGED <<config, img>>

CallCreate ==
  /\ Running
  /\ \E resp \in TextResponses :
       last' = Called("create", <<>>, resp, create(config, cont, resp))
  /\ UNCHANGED <<config, cont, img>>

CallStart ==
  /\ Running
  /\ \E resp \in ShortResponses :
       last' = Called("start", <<>>, resp, start(config, cont, resp))
  /\ UNCHANGED <<config, cont, img>>

CallStop ==
  /\ Running
  /\ \E resp \in ShortResponses :
       last' = Called("stop", <<>>, resp, stop(config, cont, resp))
  /\ UNCHANGED <<config, cont, img>>

CallRemove ==
  /\ Running
  /\ \E resp \in ShortResponses :
       last' = Called("remove", <<>>, resp, remove(config, cont, resp))
  /\ UNCHANGED <<config, cont, img>>

CallIp ==
  /\ Running
  /\ \E resp \in InspectResponses :
       last' = Called("ip", <<>>, resp, ip(config, cont, resp))
  /\ UNCHANGED <<config, cont, img>>

CallRepositoryName ==
  /\ Running
  /\ last' = Called("repositoryName", <<>>, NoResponse, repositoryName(config, img))
  /\ UNCHANGED <<config, cont, img>>

CallCommit ==
  /\ Running
  /\ \E cId \in ContainerIds, resp \in ShortResponses :
       last' = Called("commit", cId, resp, commit(config, img, cId, resp))
  /\ UNCHANGED <<config, cont, img>>

\* The configuration changes between two calls.
ConfigSet ==
  /\ Running
  /\ \E k \in Keys, v \in UNION {KeyValues(x) : x \in Keys} :
       /\ v \in KeyValues(k)
       /\ (IF k \in DOMAIN config THEN config[k] # v ELSE TRUE)
       /\ config' = [x \in DOMAIN config \cup {k} |-> IF x = k THEN v ELSE config[x]]
  /\ last' = Idle
  /\ UNCHANGED <<cont, img>>

ConfigUnset ==
  /\ Running
  /\ \E k \in DOMAIN config :
       config' = [x \in DOMAIN config \ {k} |-> config[x]]
  /\ last' = Idle
  /\ UNCHANGED <<cont, img>>

Next ==
  \/ CallCreate
  \/ CallStart
  \/ CallStop
  \/ CallRemove
  \/ CallIp
  \/ CallRepositoryName
  \/ CallCommit
  \/ ConfigSet
  \/ ConfigUnset

Spec == Init /\ [][Next]_vars

----------------------------------------------------------------------------
\* Properties

Invoked == Calls(last.ret.events) # <<>>

Success == last.ret.kind = "return" /\ last.ret.err = Nil

ConfigFailure(keys) ==
  /\ last.ret.kind = "return"
  /\ last.ret.err.type = "config"
  /\ last.ret.err.key \in keys \ DOMAIN config
  /\ Calls(last.ret.events) = <<>>

\* The keys an operation depends on, repositoryName's included for commit
Reads(op) ==
  IF op = "create" THEN {K_binary, K_image, K_cmdbin, K_cmdargs}
  ELSE IF op = "commit" THEN {K_binary, K_namespace}
  ELSE IF op = "repositoryName" THEN {K_namespace}
  ELSE {K_binary}

\* The keys an operation looks up itself and returns the error of
Lookups(op) ==
  IF op = "create" THEN {K_binary, K_image, K_cmdbin, K_cmdargs} ELSE {K_binary}

\* C1 as stated: every operation among create, stop, remove, ip, commit and
\* repositoryName, called with one of the keys it reads missing, returns a
\* configuration error and has invoked nothing.
C1_Original ==
  (/\ last.op \in {"create", "stop", "remove", "ip", "commit", "repositoryName"}
   /\ ~(Reads(last.op) \subseteq DOMAIN config))
  => ConfigFailure(Reads(last.op))

\* C1 (amended): create, stop, remove, ip and commit, called with a key they
\* look up themselves missing (docker:binary; for create also docker:image,
\* docker:cmd:bin and docker:cmd:args), return the configuration error of a
\* missing key and have invoked nothing.  A missing
\* docker:repository-namespace is no error: repositoryName returns "" with
\* no invocation, and commit with docker:binary set still makes its
\* invocation, with the empty repository name.
C1_ConfigErrorBeforeInvocation ==
  /\ (/\ last.op \in {"create", "stop", "remove", "ip", "commit"}
      /\ ~(Lookups(last.op) \subseteq DOMAIN config))
     => ConfigFailure(Lookups(last.op))
  /\ (last.op = "repositoryName" /\ K_namespace \notin DOMAIN config)
     => /\ Success
        /\ last.ret.val = <<>>
        /\ ~Invoked
  /\ (last.op = "commit" /\ K_binary \in DOMAIN config /\ K_namespace \notin DOMAIN config)
     => /\ Len(Calls(last.ret.events)) = 1
        /\ Calls(last.ret.events)[1].args[3] = <<>>
        /\ last.ret.err = last.resp.err

C1_Witness ==
  /\ last.op = "create"
  /\ {K_binary, K_image, K_cmdbin} \subseteq DOMAIN config
  /\ K_cmdargs \notin DOMAIN config
  /\ last.ret.err = ConfigError(K_cmdargs)
  /\ ~Invoked

WithoutTrailingNewline(s) ==
  IF s # <<>> /\ s[Len(s)] = NL THEN SubSeq(s, 1, Len(s) - 1) ELSE s

\* C2 as stated: the id create returns is the captured output without its
\* last character when that is a newline, and the output itself otherwise.
C2_Original ==
  (last.op = "create" /\ Invoked)
  => last.ret.val = WithoutTrailingNewline(last.resp.out)

\* C2 (amended): the id create returns is the captured output with every
\* newline removed, wherever it stands: the other characters, in order.  An
\* output whose only newline is its last character yields the output
\* without it; "abc123\n" yields "abc123".
C2_CreateRemovesEveryNewline ==
  (last.op = "create" /\ Invoked)
  => LET out == last.resp.out
         id == last.ret.val
     IN /\ id = SelectSeq(out, LAMBDA ch : ch # NL)
        /\ \A i \in 1..Len(id) : id[i] # NL
        /\ (\A i \in 1..(Len(out) - 1) : out[i] # NL)
           => id = WithoutTrailingNewline(out)
        /\ out = S_abc123 \o <<NL>> => id = S_abc123

C2_Witness ==
  /\ last.op = "create"
  /\ Invoked
  /\ last.resp.out = <<NL, "a", NL>>
  /\ last.ret.val = <<"a">>

HasSettings(p) ==
  /\ p.t = "object"
  /\ "NetworkSettings" \in DOMAIN p.m
  /\ p.m["NetworkSettings"].t = "object"

HasAddress(p) ==
  /\ HasSettings(p)
  /\ "IpAddress" \in DOMAIN p.m["NetworkSettings"].m
  /\ p.m["NetworkSettings"].m["IpAddress"].t = "string"

Address(p) == p.m["NetworkSettings"].m["IpAddress"].s

\* C3: ip maps each class of inspect outcome to its own result: a failed
\* invocation to the execution error, text that is not JSON to the parse
\* error, NetworkSettings absent or null to the NetworkSettings-missing
\* error, an empty IpAddress string to the no-address error, a non-empty
\* IpAddress string to that address without error.  The four errors differ
\* pairwise, and an error comes with the empty address.
C3_IpOutcomeClasses ==
  (last.op = "ip" /\ Invoked)
  => LET p == last.resp.out
         ret == last.ret
         ran == last.resp.err = Nil
     IN /\ ~ran => ret = Return(<<>>, New(MsgInspect), ret.events)
        /\ (ran /\ p.t = "invalid") => ret = Return(<<>>, New(MsgParse), ret.events)
        /\ (ran /\ p.t = "object" /\ "NetworkSettings" \notin DOMAIN p.m)
           => ret = Return(<<>>, New(MsgMissing), ret.events)
        /\ (ran /\ p.t = "object" /\ "NetworkSettings" \in DOMAIN p.m
              /\ p.m["NetworkSettings"].t = "null")
           => ret = Return(<<>>, New(MsgMissing), ret.events)
        /\ (ran /\ HasAddress(p) /\ Address(p) = <<>>)
           => ret = Return(<<>>, New(MsgNoIp), ret.events)
        /\ (ran /\ HasAddress(p) /\ Address(p) # <<>>)
           => ret = Return(Address(p), Nil, ret.events)
        /\ Cardinality({MsgInspect, MsgParse, MsgMissing, MsgNoIp}) = 4
        /\ ret.err # Nil => ret.val = <<>>

C3_Witness ==
  /\ last.op = "ip"
  /\ Invoked
  /\ last.resp.err = Nil
  /\ HasAddress(last.resp.out)
  /\ last.ret = Return(S_ip, Nil, last.ret.events)

ExpectedRepositoryName ==
  IF K_namespace \in DOMAIN config
  THEN config[K_namespace] \o S_slash \o last.img.name
  ELSE <<>>

\* C4: with docker:binary set, commit(containerId) makes exactly one
\* invocation, of the configured binary, with the arguments "commit", the
\* container id and the repository name, in that order and nothing more; the
\* repository name is the one the configuration of the moment gives.
C4_CommitArguments ==
  (last.op = "commit" /\ K_binary \in DOMAIN config)
  => Calls(last.ret.events)
       = <<Execute(config[K_binary], <<S_commit, last.arg, ExpectedRepositoryName>>)>>

C4_Witness ==
  /\ last.op = "commit"
  /\ last.arg = S_abc123
  /\ K_binary \in DOMAIN config
  /\ K_namespace \in DOMAIN config
  /\ config[K_namespace] = S_acme
  /\ Calls(last.ret.events)[1].args[3] = S_acme \o S_slash \o S_base

\* C5: repositoryName returns the namespace, a slash and the image name when
\* docker:repository-namespace is set ("tsuru/base" for tsuru and base) and
\* the empty string when it is not; it never fails, never invokes anything
\* and leaves the image as it was.
C5_RepositoryName ==
  last.op = "repositoryName"
  => LET v == last.ret.val IN
     /\ Success
     /\ ~Invoked
     /\ img = last.img
     /\ K_namespace \notin DOMAIN config => v = <<>>
     /\ K_namespace \in DOMAIN config
        => LET ns == config[K_namespace] IN
           /\ Len(v) = Len(ns) + 1 + Len(img.name)
           /\ SubSeq(v, 1, Len(ns)) = ns
           /\ v[Len(ns) + 1] = "/"
           /\ SubSeq(v, Len(ns) + 2, Len(v)) = img.name
           /\ (ns = S_tsuru /\ img.name = S_base)
              => v = <<"t", "s", "u", "r", "u", "/", "b", "a", "s", "e">>

C5_Witness ==
  /\ last.op = "repositoryName"
  /\ K_namespace \in DOMAIN config
  /\ last.ret.val = <<"t", "s", "u", "r", "u", "/", "b", "a", "s", "e">>

\* An inspect payload ip can take an address from
Usable(p) == HasAddress(p) /\ Address(p) # <<>>

C7_Original ==
  LET ev == last.ret.events IN
  \A i \in 1..Len(ev) :
    ev[i].e = "execute"
    => \E j \in 1..(i - 1) : ev[j] = Log(MsgRunning, <<ev[i].cmd, ev[i].args>>)

\* C7 (amended): the "running the cmd" log line of an invocation, with the
\* command and its arguments, is the event right after the invocation's
\* execution: every execution is logged, after it has run and before
\* anything else happens, and nothing is logged as run that was not.
C7_LogFollowsExecution ==
  LET ev == last.ret.events IN
  \A i \in 1..Len(ev) :
    /\ ev[i].e = "execute"
       => /\ i < Len(ev)
          /\ ev[i + 1] = Log(MsgRunning, <<ev[i].cmd, ev[i].args>>)
    /\ (ev[i].e = "log" /\ ev[i].fmt = MsgRunning)
       => /\ i > 1
          /\ ev[i - 1] = Execute(ev[i].a[1], ev[i].a[2])

C7_Witness ==
  /\ last.op = "remove"
  /\ Len(Calls(last.ret.events)) = 1
  /\ last.ret.events[2].e = "execute"
  /\ last.ret.events[3].e = "log"

\* C8 as stated: from the moment create succeeds the container's id field
\* holds the id create returned; start, stop, remove and ip leave it alone,
\* and nothing changes the name.
C8_Original ==
  /\ (last.op = "create" /\ Invoked /\ Success) => cont.id = last.ret.val
  /\ last.op \in {"start", "stop", "remove", "ip"} => cont.id = last.cont.id
  /\ cont.name = last.cont.name

\* C8 (amended): create returns the id to its caller and does not store it:
\* no call of create, start, stop, remove or ip changes the container's id
\* or name, which are after the call what they were before it.
C8_NoOperationChangesContainer ==
  cont = last.cont

C8_Witness ==
  /\ last.op = "create"
  /\ Invoked
  /\ Success
  /\ last.ret.val = S_abc123
  /\ cont.id = <<>>

\* C9: for every inspect payload that is a JSON object, ip returns an address
\* or an error and never panics, and a NetworkSettings object without
\* IpAddress gives the error of an empty address.
C9_Original ==
  (last.op = "ip" /\ Invoked /\ last.resp.err = Nil /\ last.resp.out.t = "object")
  => /\ last.ret.kind = "return"
     /\ (HasSettings(last.resp.out)
           /\ "IpAddress" \notin DOMAIN last.resp.out.m["NetworkSettings"].m)
        => last.ret.err = New(MsgNoIp)

Verb(op) ==
  IF op = "stop" THEN S_stop ELSE IF op = "remove" THEN S_rm ELSE S_inspect

\* C10 as stated: stop, remove and ip called on a container with an empty id
\* are rejected with an error and never invoke the runtime with an empty id
\* argument; start always succeeds without any invocation.
C10_Original ==
  /\ (last.op \in {"stop", "remove", "ip"} /\ last.cont.id = <<>>)
     => /\ last.ret.kind = "return"
        /\ last.ret.err # Nil
        /\ \A i \in 1..Len(Calls(last.ret.events)) :
             Calls(last.ret.events)[i].args[2] # <<>>
  /\ last.op = "start" => (Success /\ ~Invoked)

\* C10 (amended): start succeeds at any point, before creation included,
\* without any invocation or log line.  stop, remove and ip do not look at
\* the id: on a container with an empty id, with docker:binary set, they
\* invoke the runtime once, with the empty id as the argument, and there is
\* no usage error among the errors they return.
C10_EmptyIdNotChecked ==
  /\ last.op = "start" => last.ret = Return(<<>>, Nil, <<>>)
  /\ (/\ last.op \in {"stop", "remove", "ip"}
      /\ last.cont.id = <<>>
      /\ K_binary \in DOMAIN config)
     => Calls(last.ret.events) = <<Execute(config[K_binary], <<Verb(last.op), <<>>>>)>>
  /\ last.op \in {"stop", "remove", "ip"}
     => last.ret.err.type \in {"nil", "config", "exec", "errorString"}

C10_Witness ==
  /\ last.op = "stop"
  /\ last.cont.id = <<>>
  /\ Invoked
  /\ Calls(last.ret.events)[1].args = <<S_stop, <<>>>>

====
